---- MODULE Spec2Model ----
(***************************************************************************)
(* Model of python/scripts/youtube_analyzer.py: a single-process CLI that  *)
(* dispatches one of three read-only operations (metadata, transcript,     *)
(* stream) to two collaborator libraries and prints one JSON envelope.     *)
(*                                                                         *)
(* One run of the process is one behaviour.  pc is the position of the     *)
(* interpreter; the locals of the running operation live in their own      *)
(* variables and are dropped when the operation returns to main.  The      *)
(* collaborators (yt_dlp.YoutubeDL, YouTubeTranscriptApi) are the          *)
(* environment: each call either raises an exception or returns a value    *)
(* drawn from a small set.                                                 *)
(*                                                                         *)
(* Python values: a dict is a function whose DOMAIN is the set of keys     *)
(* present; a list is a sequence; an optional local (unset until           *)
(* assigned) is a sequence of length 0 or 1; an exception is a record      *)
(* [type, msg] with str(e) = e.msg.                                        *)
(***************************************************************************)
EXTENDS Integers, Sequences, FiniteSets, TLC

VARIABLES
    argv,             \* sys.argv
    pc,               \* position in the program
    exit_status,      \* process exit status, -1 while running
    stdout,           \* what has been printed, one entry per print()
    result,           \* main's local `result` (0 or 1 envelope)
    session,          \* YoutubeDL sessions entered and not yet exited
    calls,            \* collaborator calls made so far, in order
    raised,           \* exceptions raised so far, in order, with the call
    info,             \* local `info` of get_video_metadata / get_stream_url
    ret,              \* completion of a `with` body waiting for __exit__,
                      \* or of a function body waiting to return
    transcript_list,  \* local of get_transcript
    transcript,       \* local of get_transcript
    language,         \* local of get_transcript
    transcript_type,  \* local of get_transcript
    transcript_data   \* local of get_transcript

vars == <<argv, pc, exit_status, stdout, result, session, calls, raised, info, ret,
          transcript_list, transcript, language, transcript_type,
          transcript_data>>

(***************************************************************************)
(* Python helpers                                                          *)
(***************************************************************************)

\* Python's None where a string is expected.
None == "<None>"

\* The empty dict.
EmptyDict == [k \in {} |-> ""]

\* dict.get(key, default)
Get(d, key, default) == IF key \in DOMAIN d THEN d[key] ELSE default

\* Truthiness of a str-or-None value: `not s` is true for None and ''.
Falsy(s) == s = None \/ s = ""

\* a or b
PyOr(a, b) == IF Falsy(a) THEN b ELSE a

\* str(e)
Str(e) == e.msg

\* reversed(seq)
Reversed(s) == [i \in 1..Len(s) |-> s[Len(s) + 1 - i]]

\* Dicts holding `key` with one of `vals`, or not holding it.
Opt(key, vals) == {EmptyDict} \cup {[k \in {key} |-> v] : v \in vals}

\* Result envelopes.
Success(data) == [success |-> TRUE, data |-> data]

Failure(error) == [success |-> FALSE, error |-> error]

\* Completion records of a block: a return with a value, or a raise.
Return(v) == [kind |-> "return", value |-> v]

Raise(e) == [kind |-> "raise", exc |-> e]

\* An entry of the log of raised exceptions.
Raised(where, e) == [where |-> where, exc |-> e]

\* The exception classes that derive from Exception.  SystemExit,
\* KeyboardInterrupt and GeneratorExit derive from BaseException only and
\* are not among them.
ExceptionClasses ==
    {"DownloadError", "OSError", "AttributeError", "TranscriptsDisabled",
     "NoTranscriptFound", "VideoUnavailable", "RequestBlocked"}

\* Mutant of IsException: the handler names the extractor's own error
\* classes only, so an error of the shaping code is not caught.
IsException_LibraryErrorsOnly(e) == e.type \in ExceptionClasses \ {"AttributeError"}

\* Whether `except Exception` catches e.
IsException(e) == e.type \in ExceptionClasses

(***************************************************************************)
(* Inputs                                                                  *)
(***************************************************************************)

Prog == "youtube_analyzer.py"

CommandWords == {"metadata", "transcript", "stream", "download", "Metadata", ""}

VideoIds == {"dQw4w9WgXcQ"}

\* Command lines: no argument, a command alone, command and video id, and
\* one more argument than needed.
ArgvSet ==
    {<<Prog>>}
    \cup {<<Prog, c>> : c \in CommandWords}
    \cup {<<Prog, c, v>> : c \in CommandWords, v \in VideoIds}
    \cup {<<Prog, c, v, "extra">> : c \in CommandWords, v \in VideoIds}

\* Exceptions the extractor library raises.
ExtractorErrors ==
    {[type |-> "DownloadError", msg |-> "ERROR: [youtube] Video unavailable"],
     [type |-> "OSError", msg |-> "Network is unreachable"]}

\* info.get(...) on None.
NoneGetError ==
    [type |-> "AttributeError",
     msg |-> "'NoneType' object has no attribute 'get'"]

\* What extract_info returns: None, or an info dict.
NoneInfo == [is_none |-> TRUE, d |-> EmptyDict]

DictInfo(d) == [is_none |-> FALSE, d |-> d]

\* Info dicts seen by the metadata operation: every key may be missing.
MetadataInfos ==
    {a @@ b @@ c @@ e @@ f @@ g @@ h @@ i :
        a \in Opt("title", {"Never Gonna Give You Up"}),
        b \in Opt("uploader", {"", "Rick Astley"}),
        c \in Opt("channel", {"RickAstleyVEVO"}),
        e \in Opt("duration", {212}),
        f \in Opt("description", {"Official video"}),
        g \in Opt("thumbnail", {"https://i.ytimg.com/vi/x/hq.jpg"}),
        h \in Opt("upload_date", {"20091025"}),
        i \in Opt("view_count", {1500})}

(***************************************************************************)
(* main: argument check and dispatch                                       *)
(***************************************************************************)

UsageMessage ==
    "Usage: python youtube_analyzer.py <metadata|transcript|stream> <video_id>"

\* sys.argv[1], sys.argv[2]
command == argv[2]

video_id == argv[3]

\* Mutant of UnknownCommandMessage: the command is not put in the message.
UnknownCommandMessage_NoCommand(c) ==
    "Unknown command. Use \"metadata\", \"transcript\", or \"stream\""

UnknownCommandMessage(c) ==
    "Unknown command: " \o c \o ". Use \"metadata\", \"transcript\", or \"stream\""

\* print(json.dumps(obj)) / print(json.dumps(obj, indent=2))
Printed(envelope, indent) == [envelope |-> envelope, indent |-> indent]

Init ==
    /\ argv \in ArgvSet
    /\ pc = "main"
    /\ exit_status = -1
    /\ stdout = <<>>
    /\ result = <<>>
    /\ session = 0
    /\ calls = <<>>
    /\ raised = <<>>
    /\ info = <<>>
    /\ ret = <<>>
    /\ transcript_list = <<>>
    /\ transcript = <<>>
    /\ language = None
    /\ transcript_type = None
    /\ transcript_data = <<>>

\* Mutant of TooFewArguments: the bound is one too high.
TooFewArguments_OffByOne(a) == Len(a) < 4

\* len(sys.argv) < 3
TooFewArguments(a) == Len(a) < 3

\* A function handing `envelope` back to main, which goes on to print it.
Returns(envelope) ==
    /\ result' = <<envelope>>
    /\ pc' = "print"
    /\ UNCHANGED <<exit_status, stdout>>

\* The status the interpreter ends with when exception e leaves main
\* uncaught.  SystemExit carries the status in its code (an integer, or
\* absent for None, which is 0); after KeyboardInterrupt the interpreter
\* ends the process by SIGINT, written -2 as a return code of signal 2;
\* any other exception gives a traceback and status 1.
UncaughtStatus(e) ==
    IF e.type = "SystemExit"
    THEN (IF "code" \in DOMAIN e THEN e.code % 256 ELSE 0)
    ELSE IF e.type = "KeyboardInterrupt" THEN -2
    ELSE 1

\* An exception e that no except clause caught leaves main: the process
\* ends with UncaughtStatus(e) and nothing is printed on standard output.
Propagates(e) ==
    /\ pc' = "exited"
    /\ exit_status' = UncaughtStatus(e)
    /\ UNCHANGED <<result, stdout>>

\* if len(sys.argv) < 3: print usage envelope; sys.exit(1)
MainUsage ==
    /\ pc = "main"
    /\ TooFewArguments(argv)
    /\ stdout' = Append(stdout, Printed(Failure(UsageMessage), 0))
    /\ exit_status' = 1
    /\ pc' = "exited"
    /\ UNCHANGED <<argv, result, session, calls, raised, info, ret, transcript_list,
                   transcript, language, transcript_type, transcript_data>>

\* The if/elif chain on `command`: where each branch continues.
DispatchTarget(c) ==
    IF c = "metadata" THEN "metadata_try"
    ELSE IF c = "transcript" THEN "transcript_try"
    ELSE IF c = "stream" THEN "stream_try"
    ELSE "print"

\* command = sys.argv[1]; video_id = sys.argv[2]; the if/elif/else chain.
\* The else branch builds the unknown-command envelope without any call.
MainDispatch ==
    /\ pc = "main"
    /\ ~TooFewArguments(argv)
    /\ pc' = DispatchTarget(command)
    /\ result' = IF DispatchTarget(command) = "print"
                 THEN <<Failure(UnknownCommandMessage(command))>>
                 ELSE result
    /\ UNCHANGED <<argv, exit_status, stdout, session, calls, raised, info, ret,
                   transcript_list, transcript, language, transcript_type,
                   transcript_data>>

\* print(json.dumps(result, indent=2)); falling off main ends the process
\* with status 0.
MainPrint ==
    /\ pc = "print"
    /\ stdout' = Append(stdout, Printed(result[1], 2))
    /\ exit_status' = 0
    /\ pc' = "exited"
    /\ UNCHANGED <<argv, result, session, calls, raised, info, ret, transcript_list,
                   transcript, language, transcript_type, transcript_data>>

(***************************************************************************)
(* get_video_metadata                                                      *)
(***************************************************************************)

WatchUrl(v) == "https://www.youtube.com/watch?v=" \o v

\* The metadata dict built from info.
Metadata(d) ==
    [title |-> Get(d, "title", ""),
     channel |-> PyOr(Get(d, "uploader", ""), Get(d, "channel", "")),
     duration |-> Get(d, "duration", 0),
     description |-> Get(d, "description", ""),
     thumbnail |-> Get(d, "thumbnail", ""),
     upload_date |-> Get(d, "upload_date", ""),
     view_count |-> Get(d, "view_count", 0)]

\* The body of the `with` block after extract_info returned: its completion.
MetadataShape(i) ==
    IF i.is_none THEN Raise(NoneGetError)
    ELSE Return(Success(Metadata(i.d)))

\* Mutant of CatchAll: the class name instead of the message.
CatchAll_ClassName(e) == Failure(e.type)

\* except Exception as e: return failure envelope with str(e)
CatchAll(e) == Failure(Str(e))

\* The try/except Exception of the metadata and stream operations around a
\* raised exception e.
Handles(e) == IF IsException(e) THEN Returns(CatchAll(e)) ELSE Propagates(e)

\* How the operation ends once the with block completed with r.
TryOutcome(r) == IF r.kind = "return" THEN Returns(r.value) ELSE Handles(r.exc)

\* Mutant of SessionAfterExit: the session is closed at the end of the
\* block only, so a block left by an exception keeps it open.
SessionAfterExit_LeakOnRaise(n, r) == IF r.kind = "raise" THEN n ELSE n - 1

\* The number of open sessions after the with statement ran __exit__, which
\* it does however the block completed (r: by return or by exception).
SessionAfterExit(n, r) == n - 1

\* The log of raised exceptions after a with body completed with r.
RaisedAfter(log, where, r) ==
    IF r.kind = "raise" THEN Append(log, Raised(where, r.exc)) ELSE log

\* `with yt_dlp.YoutubeDL(ydl_opts) as ydl:` -- the constructor raises (no
\* session was entered, the except clause answers) or the session is entered.
MetadataOpen ==
    /\ pc = "metadata_try"
    /\ calls' = Append(calls, "YoutubeDL")
    /\ \/ \E e \in ExtractorErrors :
            /\ raised' = Append(raised, Raised("YoutubeDL", e))
            /\ Handles(e)
            /\ UNCHANGED session
       \/ /\ session' = session + 1
          /\ pc' = "metadata_extract"
          /\ UNCHANGED <<raised, result, exit_status, stdout>>
    /\ UNCHANGED <<argv, info, ret, transcript_list, transcript, language,
                   transcript_type, transcript_data>>

\* info = ydl.extract_info(url, download=False), then the shaping of the
\* result; either may raise inside the with block.
MetadataExtract ==
    /\ pc = "metadata_extract"
    /\ calls' = Append(calls, "extract_info " \o WatchUrl(video_id))
    /\ \/ \E e \in ExtractorErrors :
            /\ ret' = <<Raise(e)>>
            /\ raised' = Append(raised, Raised("extract_info", e))
            /\ UNCHANGED info
       \/ \E i \in {NoneInfo} \cup {DictInfo(d) : d \in MetadataInfos} :
            /\ info' = <<i>>
            /\ ret' = <<MetadataShape(i)>>
            /\ raised' = RaisedAfter(raised, "shaping", MetadataShape(i))
    /\ pc' = "metadata_exit"
    /\ UNCHANGED <<argv, exit_status, stdout, result, session,
                   transcript_list, transcript, language, transcript_type,
                   transcript_data>>

\* Leaving the with block, by return or by exception: __exit__ releases the
\* session, then the function returns (or its except clause does), and its
\* locals are gone.
MetadataExit ==
    /\ pc = "metadata_exit"
    /\ session' = SessionAfterExit(session, ret[1])
    /\ TryOutcome(ret[1])
    /\ info' = <<>>
    /\ ret' = <<>>
    /\ UNCHANGED <<argv, calls, raised, transcript_list, transcript, language,
                   transcript_type, transcript_data>>

(***************************************************************************)
(* get_transcript                                                          *)
(***************************************************************************)

Langs == {"en", "de", "fr"}

MaxItems == 2

\* Sequences over S without repetition: the keys of a dict, in order.
RECURSIVE Injective(_)
Injective(S) ==
    {<<>>} \cup UNION {{<<x>> \o t : t \in Injective(S \ {x})} : x \in S}

\* A transcript handle of the listing.
Transcript(code, generated) ==
    [language_code |-> code, is_generated |-> generated]

\* What ytt_api.list(video_id) returns: the manually created and the
\* generated transcripts, each a dict keyed by language code (kept in
\* insertion order).
TranscriptLists ==
    {[manual |-> [i \in 1..Len(m) |-> Transcript(m[i], FALSE)],
      generated |-> [i \in 1..Len(g) |-> Transcript(g[i], TRUE)]] :
        m \in Injective(Langs), g \in Injective(Langs)}

\* Exceptions of the transcript library; str(e) is the library's own text.
TranscriptsDisabled ==
    [type |-> "TranscriptsDisabled",
     msg |-> "Could not retrieve a transcript: Subtitles are disabled for this video"]

NoTranscriptFound ==
    [type |-> "NoTranscriptFound",
     msg |-> "Could not retrieve a transcript: No transcripts were found for any of the requested language codes"]

VideoUnavailable ==
    [type |-> "VideoUnavailable",
     msg |-> "Could not retrieve a transcript: The video is no longer available"]

RequestBlocked ==
    [type |-> "RequestBlocked",
     msg |-> "Could not retrieve a transcript: YouTube is blocking requests from your IP"]

TranscriptErrors ==
    {TranscriptsDisabled, NoTranscriptFound, VideoUnavailable, RequestBlocked}

\* Caption items returned by transcript.fetch().
StartTimes == {0, 5}

Durations == {3}

Texts == {"", "a", "b c"}

Items == [start : StartTimes, duration : Durations, text : Texts]

ItemLists == UNION {[1..n -> Items] : n \in 0..MaxItems}

\* dict.keys() of a transcript dict.
Keys(ts) == [i \in 1..Len(ts) |-> ts[i].language_code]

\* Index of the transcript of `ts` with language code `code`, 0 if none.
IndexOf(ts, code) ==
    IF \E i \in 1..Len(ts) : ts[i].language_code = code
    THEN CHOOSE i \in 1..Len(ts) : ts[i].language_code = code
    ELSE 0

\* find_manually_created_transcript / find_generated_transcript on one of
\* the two dicts: the transcript of the first requested code the dict holds;
\* <<>> stands for raising NoTranscriptFound.
RECURSIVE FindTranscript(_, _)
FindTranscript(ts, codes) ==
    IF codes = <<>> THEN <<>>
    ELSE IF IndexOf(ts, Head(codes)) # 0 THEN <<ts[IndexOf(ts, Head(codes))]>>
    ELSE FindTranscript(ts, Tail(codes))

\* Outcome of the nested try/except selection.
Selected(t, lang, type, steps) ==
    [raised |-> FALSE, transcript |-> <<t>>, language |-> lang,
     transcript_type |-> type, steps |-> steps]

\* Mutant of SelectTranscript: English first, manual or generated, and only
\* then the other languages.
SelectTranscript_EnglishFirst(tl) ==
    LET s1 == FindTranscript(tl.manual, <<"en">>)
        s2 == FindTranscript(tl.manual, Keys(tl.manual))
        s3 == FindTranscript(tl.generated, <<"en">>)
        s4 == FindTranscript(tl.generated, Keys(tl.generated))
    IN  IF s1 # <<>> THEN Selected(s1[1], "en", "manual", 1)
        ELSE IF s3 # <<>> THEN Selected(s3[1], "en", "generated", 2)
        ELSE IF s2 # <<>>
             THEN Selected(s2[1], s2[1].language_code, "manual", 3)
        ELSE IF s4 # <<>>
             THEN Selected(s4[1], s4[1].language_code, "generated", 4)
        ELSE [raised |-> TRUE, transcript |-> <<>>, language |-> None,
              transcript_type |-> "manual", steps |-> 4]

\* The nested try/except chain: each inner try runs only when the find of
\* the try before it raised; the last find is not guarded.
SelectTranscript(tl) ==
    LET s1 == FindTranscript(tl.manual, <<"en">>)
        s2 == FindTranscript(tl.manual, Keys(tl.manual))
        s3 == FindTranscript(tl.generated, <<"en">>)
        s4 == FindTranscript(tl.generated, Keys(tl.generated))
    IN  IF s1 # <<>> THEN Selected(s1[1], "en", "manual", 1)
        ELSE IF s2 # <<>>
             THEN Selected(s2[1], s2[1].language_code, "manual", 2)
        ELSE IF s3 # <<>> THEN Selected(s3[1], "en", "generated", 3)
        ELSE IF s4 # <<>>
             THEN Selected(s4[1], s4[1].language_code, "generated", 4)
        ELSE [raised |-> TRUE, transcript |-> <<>>, language |-> None,
              transcript_type |-> "manual", steps |-> 4]

\* The find calls made by a selection that went through `n` steps.
FindCalls(n) ==
    SubSeq(<<"find_manually_created_transcript en",
             "find_manually_created_transcript keys",
             "find_generated_transcript en",
             "find_generated_transcript keys">>, 1, n)

\* float(x): the caption items carry numbers already.
Float(x) == x

\* One iteration of the for loop: the segment built from a caption item.
Segment(item) ==
    [start |-> Float(item.start),
     end |-> Float(item.start) + Float(item.duration),
     duration |-> Float(item.duration),
     text |-> item.text]

\* The for loop over transcript_data: segments.append(segment)
Segments(items) == [i \in 1..Len(items) |-> Segment(items[i])]

\* The for loop over transcript_data: full_text_parts.append(item.text)
FullTextParts(items) == [i \in 1..Len(items) |-> items[i].text]

\* Mutant of JoinSpace: a space after every part, the last one too.
RECURSIVE JoinSpace_TrailingSpace(_)
JoinSpace_TrailingSpace(parts) ==
    IF parts = <<>> THEN ""
    ELSE parts[1] \o " " \o JoinSpace_TrailingSpace(Tail(parts))

\* ' '.join(parts)
RECURSIVE JoinSpace(_)
JoinSpace(parts) ==
    IF parts = <<>> THEN ""
    ELSE IF Len(parts) = 1 THEN parts[1]
    ELSE parts[1] \o " " \o JoinSpace(Tail(parts))

\* The success envelope of get_transcript.
TranscriptSuccess(items, type, lang) ==
    Success([full_text |-> JoinSpace(FullTextParts(items)),
             segments |-> Segments(items),
             type |-> type,
             language |-> lang])

\* Mutant of TranscriptCatch: the VideoUnavailable clause is missing.
TranscriptCatch_NoVideoUnavailable(e) ==
    IF e.type = "TranscriptsDisabled"
    THEN Failure("Transcripts are disabled for this video")
    ELSE IF e.type = "NoTranscriptFound"
    THEN Failure("No transcript found for this video")
    ELSE Failure(Str(e))

\* The except clauses of get_transcript, in order.
TranscriptCatch(e) ==
    IF e.type = "TranscriptsDisabled"
    THEN Failure("Transcripts are disabled for this video")
    ELSE IF e.type = "NoTranscriptFound"
    THEN Failure("No transcript found for this video")
    ELSE IF e.type = "VideoUnavailable"
    THEN Failure("Video is unavailable")
    ELSE Failure(Str(e))

\* The outer try of get_transcript around a raised exception e: the locals
\* are gone either way.
TranscriptHandles(e) ==
    /\ IF IsException(e) THEN Returns(TranscriptCatch(e)) ELSE Propagates(e)
    /\ transcript_list' = <<>>
    /\ transcript' = <<>>
    /\ language' = None
    /\ transcript_type' = None
    /\ transcript_data' = <<>>

\* The finds of a selection that raised NoTranscriptFound: all but the last
\* one made, and the last one too when the selection failed.
FindRaises(sel) ==
    [i \in 1..(IF sel.raised THEN sel.steps ELSE sel.steps - 1) |->
        Raised(FindCalls(sel.steps)[i], NoTranscriptFound)]

\* ytt_api = YouTubeTranscriptApi(); transcript_list = ytt_api.list(video_id)
\* and the initial values of the three selection locals.
TranscriptList ==
    /\ pc = "transcript_try"
    /\ calls' = Append(calls, "list " \o video_id)
    /\ \/ \E e \in TranscriptErrors :
            /\ raised' = Append(raised, Raised("list", e))
            /\ TranscriptHandles(e)
       \/ \E tl \in TranscriptLists :
            /\ transcript_list' = <<tl>>
            /\ transcript_type' = "manual"
            /\ pc' = "transcript_select"
            /\ UNCHANGED <<raised, result, exit_status, stdout, transcript,
                           language, transcript_data>>
    /\ UNCHANGED <<argv, session, info, ret>>

\* The selection; when the last find raises, the outer except clauses
\* answer and the function returns.
TranscriptSelect ==
    /\ pc = "transcript_select"
    /\ LET sel == SelectTranscript(transcript_list[1]) IN
        /\ calls' = calls \o FindCalls(sel.steps)
        /\ raised' = raised \o FindRaises(sel)
        /\ IF sel.raised
           THEN TranscriptHandles(NoTranscriptFound)
           ELSE /\ transcript' = sel.transcript
                /\ language' = sel.language
                /\ transcript_type' = sel.transcript_type
                /\ pc' = "transcript_fetch"
                /\ UNCHANGED <<result, exit_status, stdout, transcript_list,
                               transcript_data>>
    /\ UNCHANGED <<argv, session, info, ret>>

\* transcript_data = transcript.fetch()
TranscriptFetch ==
    /\ pc = "transcript_fetch"
    /\ calls' = Append(calls, "fetch")
    /\ \/ \E e \in TranscriptErrors :
            /\ raised' = Append(raised, Raised("fetch", e))
            /\ TranscriptHandles(e)
       \/ \E items \in ItemLists :
            /\ transcript_data' = <<items>>
            /\ pc' = "transcript_build"
            /\ UNCHANGED <<raised, result, exit_status, stdout,
                           transcript_list, transcript, language,
                           transcript_type>>
    /\ UNCHANGED <<argv, session, info, ret>>

\* The for loop, the join and the value of the return statement.
TranscriptBuild ==
    /\ pc = "transcript_build"
    /\ ret' = <<Return(TranscriptSuccess(transcript_data[1], transcript_type,
                                         language))>>
    /\ pc' = "transcript_return"
    /\ UNCHANGED <<argv, exit_status, stdout, result, session, calls, raised,
                   info, transcript_list, transcript, language,
                   transcript_type, transcript_data>>

\* The return: main's result is assigned and the locals are gone.
TranscriptReturn ==
    /\ pc = "transcript_return"
    /\ Returns(ret[1].value)
    /\ ret' = <<>>
    /\ transcript_list' = <<>>
    /\ transcript' = <<>>
    /\ language' = None
    /\ transcript_type' = None
    /\ transcript_data' = <<>>
    /\ UNCHANGED <<argv, session, calls, raised, info>>

(***************************************************************************)
(* get_stream_url                                                          *)
(***************************************************************************)

MaxFormats == 2

\* Entries of info['formats']: vcodec and url may be missing.
Formats ==
    {a @@ b @@ c :
        a \in Opt("vcodec", {"none", "avc1"}),
        b \in {[k \in {"acodec"} |-> v] : v \in {"none", "mp4a"}},
        c \in Opt("url", {"", "https://cdn/f1", "https://cdn/f2"})}

FormatLists == UNION {[1..n -> Formats] : n \in 0..MaxFormats}

\* The other keys the stream record reads: all missing, or all present.
StreamExtras ==
    {EmptyDict,
     [duration |-> 212, width |-> 1280, height |-> 720,
      format |-> "18 - 640x360", ext |-> "webm"]}

\* Info dicts seen by the stream operation.
StreamInfos ==
    {a @@ b @@ c :
        a \in Opt("url", {"", "https://cdn/top"}),
        b \in {EmptyDict} \cup {[k \in {"formats"} |-> fl] : fl \in FormatLists},
        c \in StreamExtras}

\* fmt.get('vcodec') != 'none' and fmt.get('acodec') != 'none'
IsCombined(fmt) ==
    Get(fmt, "vcodec", None) # "none" /\ Get(fmt, "acodec", None) # "none"

\* fmt.get('vcodec') != 'none'
HasVideo(fmt) == Get(fmt, "vcodec", None) # "none"

\* A for loop with break over `fmts` that assigns the url of the first
\* entry whose index is in `matching`; `current` is kept when none matches.
FirstUrl(fmts, matching, current) ==
    IF matching = {} THEN current
    ELSE Get(fmts[CHOOSE i \in matching : \A j \in matching : i <= j],
             "url", "")

\* for fmt in reversed(formats): if combined: stream_url = url; break
CombinedScan(formats, current) ==
    LET r == Reversed(formats)
    IN  FirstUrl(r, {i \in 1..Len(r) : IsCombined(r[i])}, current)

\* if not stream_url: for fmt in reversed(formats): if video: ...; break
VideoScan(formats, current) ==
    LET r == Reversed(formats)
    IN  IF Falsy(current)
        THEN FirstUrl(r, {i \in 1..Len(r) : HasVideo(r[i])}, current)
        ELSE current

\* The value of stream_url after the resolution steps.
ResolveStreamUrl(d) ==
    LET top == Get(d, "url", "")
    IN  IF Falsy(top) /\ "formats" \in DOMAIN d
        THEN VideoScan(d["formats"], CombinedScan(d["formats"], top))
        ELSE top

NoStreamUrlMessage == "Could not extract stream URL from video"

\* The stream record of the success envelope.
StreamData(d, stream_url) ==
    [stream_url |-> stream_url,
     duration |-> Get(d, "duration", 0),
     width |-> Get(d, "width", 0),
     height |-> Get(d, "height", 0),
     format |-> Get(d, "format", ""),
     ext |-> Get(d, "ext", "mp4")]

\* Mutant of StreamShape: the check for an unresolved url is missing.
StreamShape_NoCheck(i) ==
    IF i.is_none THEN Raise(NoneGetError)
    ELSE Return(Success(StreamData(i.d, ResolveStreamUrl(i.d))))

\* The body of the with block after extract_info returned: its completion.
StreamShape(i) ==
    IF i.is_none THEN Raise(NoneGetError)
    ELSE IF Falsy(ResolveStreamUrl(i.d))
    THEN Return(Failure(NoStreamUrlMessage))
    ELSE Return(Success(StreamData(i.d, ResolveStreamUrl(i.d))))

\* `with yt_dlp.YoutubeDL(ydl_opts) as ydl:`
StreamOpen ==
    /\ pc = "stream_try"
    /\ calls' = Append(calls, "YoutubeDL")
    /\ \/ \E e \in ExtractorErrors :
            /\ raised' = Append(raised, Raised("YoutubeDL", e))
            /\ Handles(e)
            /\ UNCHANGED session
       \/ /\ session' = session + 1
          /\ pc' = "stream_extract"
          /\ UNCHANGED <<raised, result, exit_status, stdout>>
    /\ UNCHANGED <<argv, info, ret, transcript_list, transcript, language,
                   transcript_type, transcript_data>>

\* info = ydl.extract_info(url, download=False), then the resolution of the
\* stream url and the shaping of the result, inside the with block.
StreamExtract ==
    /\ pc = "stream_extract"
    /\ calls' = Append(calls, "extract_info " \o WatchUrl(video_id))
    /\ \/ \E e \in ExtractorErrors :
            /\ ret' = <<Raise(e)>>
            /\ raised' = Append(raised, Raised("extract_info", e))
            /\ UNCHANGED info
       \/ \E i \in {NoneInfo} \cup {DictInfo(d) : d \in StreamInfos} :
            /\ info' = <<i>>
            /\ ret' = <<StreamShape(i)>>
            /\ raised' = RaisedAfter(raised, "shaping", StreamShape(i))
    /\ pc' = "stream_exit"
    /\ UNCHANGED <<argv, exit_status, stdout, result, session,
                   transcript_list, transcript, language, transcript_type,
                   transcript_data>>

\* Leaving the with block, by either return or by exception: __exit__
\* releases the session, then the function returns and its locals are gone.
StreamExit ==
    /\ pc = "stream_exit"
    /\ session' = SessionAfterExit(session, ret[1])
    /\ TryOutcome(ret[1])
    /\ info' = <<>>
    /\ ret' = <<>>
    /\ UNCHANGED <<argv, calls, raised, transcript_list, transcript, language,
                   transcript_type, transcript_data>>

Next ==
    \/ MainUsage
    \/ MainDispatch
    \/ MainPrint
    \/ MetadataOpen
    \/ MetadataExtract
    \/ MetadataExit
    \/ TranscriptList
    \/ TranscriptSelect
    \/ TranscriptFetch
    \/ TranscriptBuild
    \/ TranscriptReturn
    \/ StreamOpen
    \/ StreamExtract
    \/ StreamExit

Spec == Init /\ [][Next]_vars


(***************************************************************************)
(* Properties                                                              *)
(***************************************************************************)

\* The command line carries a command and a video id.
AtLeastTwoArguments == Len(argv) >= 3

RunsCommand(c) == AtLeastTwoArguments /\ argv[2] = c

HasLanguage(ts, code) == \E i \in 1..Len(ts) : ts[i].language_code = code

\* The texts 1..n joined by single spaces, built from the left.
RECURSIVE SpaceJoined(_, _)
SpaceJoined(texts, n) ==
    IF n = 0 THEN ""
    ELSE IF n = 1 THEN texts[1]
    ELSE SpaceJoined(texts, n - 1) \o " " \o texts[n]

\* An envelope carries data and no error exactly when success is true, and
\* an error string and no data exactly when success is false.
WellFormed(env) ==
    \/ DOMAIN env = {"success", "data"} /\ env.success = TRUE
    \/ /\ DOMAIN env = {"success", "error"}
       /\ env.success = FALSE
       /\ env.error \in STRING

\* C1: once get_transcript has selected, the chosen transcript is the one
\* the four-step priority names (manual English, else the first manual,
\* else generated English, else the first generated), exactly as many finds
\* were made as that step's number and all but the last raised, the
\* reported type is 'manual' exactly when the transcript is not a generated
\* one, the reported language is the transcript's language code, and the
\* success envelope carries that type and language.
C1_SelectionPriority ==
    pc \in {"transcript_fetch", "transcript_build", "transcript_return"} =>
        LET tl == transcript_list[1]
            t == transcript[1]
            step == IF HasLanguage(tl.manual, "en") THEN 1
                    ELSE IF tl.manual # <<>> THEN 2
                    ELSE IF HasLanguage(tl.generated, "en") THEN 3
                    ELSE 4
        IN  /\ step = 1 => t = [language_code |-> "en", is_generated |-> FALSE]
            /\ step = 2 => t = tl.manual[1]
            /\ step = 3 => t = [language_code |-> "en", is_generated |-> TRUE]
            /\ step = 4 => tl.generated # <<>> /\ t = tl.generated[1]
            /\ (transcript_type = "manual") <=> ~t.is_generated
            /\ (transcript_type = "generated") <=> t.is_generated
            /\ (transcript_type = "manual") <=> (step <= 2)
            /\ language = t.language_code
            /\ Len(raised) = step - 1
            /\ Len(calls) = 1 + step + (IF pc = "transcript_fetch" THEN 0 ELSE 1)
            /\ pc = "transcript_return" =>
                /\ ret[1].value.success
                /\ ret[1].value.data.type = transcript_type
                /\ ret[1].value.data.language = language

\* C1 witness: a manual German transcript is chosen over a generated English
\* one and reported as manual, de.
C1_Witness ==
    /\ pc = "transcript_return"
    /\ transcript_list[1].manual = <<[language_code |-> "de", is_generated |-> FALSE]>>
    /\ HasLanguage(transcript_list[1].generated, "en")
    /\ ret[1].value.data.type = "manual"
    /\ ret[1].value.data.language = "de"

\* C2: when info has no top-level url and the formats list holds both a
\* combined format and a video-only format, the stream_url of the success
\* envelope is the url of a combined format of the list.
C2_CombinedPreferred ==
    (pc = "stream_exit" /\ info # <<>> /\ ~info[1].is_none) =>
        LET d == info[1].d
            fs == d["formats"]
            combined == {k \in 1..Len(fs) :
                            /\ Get(fs[k], "vcodec", None) # "none"
                            /\ Get(fs[k], "acodec", None) # "none"}
            videoOnly == {k \in 1..Len(fs) :
                            /\ Get(fs[k], "vcodec", None) # "none"
                            /\ Get(fs[k], "acodec", None) = "none"}
        IN  ( /\ Get(d, "url", "") = ""
              /\ "formats" \in DOMAIN d
              /\ combined # {}
              /\ videoOnly # {}
              /\ ret[1].kind = "return"
              /\ ret[1].value.success )
            => ret[1].value.data.stream_url
                    \in {Get(fs[k], "url", "") : k \in combined}

\* C3: when get_stream_url completes its resolution without a url (no
\* top-level url and no formats, or no entry with a video codec that has a
\* url), it returns the fixed failure envelope; every failure it returns
\* from the resolution is that envelope; and a success envelope of the
\* stream operation carries a non-empty stream_url.
C3_NoUrlFailure ==
    /\ (pc = "stream_exit" /\ info # <<>> /\ ~info[1].is_none) =>
        LET d == info[1].d
            v == ret[1].value
            fixed == [success |-> FALSE,
                      error |-> "Could not extract stream URL from video"]
            noTop == Get(d, "url", "") \in {"", None}
            noFormats == "formats" \notin DOMAIN d \/ d["formats"] = <<>>
            noCandidate ==
                "formats" \in DOMAIN d =>
                    \A k \in 1..Len(d["formats"]) :
                        Get(d["formats"][k], "vcodec", None) # "none"
                            => Get(d["formats"][k], "url", "") \in {"", None}
        IN  /\ ret[1].kind = "return"
            /\ (noTop /\ noFormats) => v = fixed
            /\ (noTop /\ noCandidate) => v = fixed
            /\ ~v.success => v = fixed /\ noTop
            /\ v.success => v.data.stream_url \notin {"", None}
    /\ (RunsCommand("stream") /\ result # <<>> /\ result[1].success) =>
            result[1].data.stream_url \notin {"", None}

\* C3 witness: no url, an empty formats list, the fixed failure envelope.
C3_Witness ==
    /\ pc = "stream_exit"
    /\ info # <<>>
    /\ ~info[1].is_none
    /\ "url" \notin DOMAIN info[1].d
    /\ "formats" \in DOMAIN info[1].d
    /\ info[1].d["formats"] = <<>>
    /\ ret[1] = [kind |-> "return",
                 value |-> [success |-> FALSE,
                            error |-> "Could not extract stream URL from video"]]

\* C4: in the metadata and stream operations at most one exception is
\* raised (by the constructor, by extract_info or by the shaping), the
\* operation then returns the failure envelope with that exception's
\* message, and main prints it and ends with status 0.
C4_ExtractorExceptionsCaught ==
    (AtLeastTwoArguments /\ argv[2] \in {"metadata", "stream"}) =>
        /\ Len(raised) <= 1
        /\ raised # <<>> =>
            /\ raised[1].where \in {"YoutubeDL", "extract_info", "shaping"}
            /\ pc \in {"metadata_exit", "stream_exit", "print", "exited"}
            /\ pc \in {"print", "exited"} =>
                result = <<[success |-> FALSE, error |-> raised[1].exc.msg]>>
            /\ pc = "exited" =>
                /\ exit_status = 0
                /\ stdout = <<[envelope |-> result[1], indent |-> 2]>>

\* C4 witness: the shaping of the stream result raised and the process
\* ended after printing the failure envelope with the message.
C4_Witness ==
    /\ RunsCommand("stream")
    /\ pc = "exited"
    /\ Len(raised) = 1
    /\ raised[1].where = "shaping"
    /\ stdout[1].envelope =
        [success |-> FALSE,
         error |-> "'NoneType' object has no attribute 'get'"]

\* C5: when get_transcript fails, the exception that surfaced is the last
\* one raised, it was raised by the listing, by the last find or by the
\* fetch, and the error is the fixed message of its class for the three
\* named classes and the exception's own text otherwise; a find of steps 1
\* to 3 that raised was followed by the find of the next step.
C5_NamedFailures ==
    RunsCommand("transcript") =>
        /\ \A k \in 1..3 :
            (\E i \in 1..Len(raised) : raised[i].where =
                <<"find_manually_created_transcript en",
                  "find_manually_created_transcript keys",
                  "find_generated_transcript en">>[k])
            => (\E j \in 1..Len(calls) : calls[j] =
                <<"find_manually_created_transcript keys",
                  "find_generated_transcript en",
                  "find_generated_transcript keys">>[k])
        /\ pc \in {"print", "exited"} =>
            /\ result # <<>>
            /\ IF result[1].success
               THEN \A i \in 1..Len(raised) :
                        raised[i].where \in
                            {"find_manually_created_transcript en",
                             "find_manually_created_transcript keys",
                             "find_generated_transcript en"}
               ELSE /\ raised # <<>>
                    /\ LET last == raised[Len(raised)]
                       IN  /\ last.where \in
                                {"list", "find_generated_transcript keys",
                                 "fetch"}
                           /\ result[1].error =
                                CASE last.exc.type = "TranscriptsDisabled" ->
                                        "Transcripts are disabled for this video"
                                  [] last.exc.type = "NoTranscriptFound" ->
                                        "No transcript found for this video"
                                  [] last.exc.type = "VideoUnavailable" ->
                                        "Video is unavailable"
                                  [] OTHER -> last.exc.msg

\* C5 witness: two finds raised, the third found a transcript, the fetch
\* raised VideoUnavailable and the fixed message is returned.
C5_Witness ==
    /\ RunsCommand("transcript")
    /\ pc = "print"
    /\ Len(raised) = 3
    /\ raised[3].where = "fetch"
    /\ raised[3].exc.type = "VideoUnavailable"
    /\ result = <<[success |-> FALSE, error |-> "Video is unavailable"]>>

\* C6: with fewer than 2 arguments main prints the usage envelope, exits
\* with status 1 and calls nothing; with at least 2 arguments the process
\* ends with status 0.
C6_UsageExit ==
    /\ Len(argv) < 3 =>
        /\ pc \in {"main", "exited"}
        /\ calls = <<>>
        /\ result = <<>>
        /\ session = 0
        /\ pc = "exited" =>
            /\ exit_status = 1
            /\ stdout =
                <<[envelope |->
                    [success |-> FALSE,
                     error |-> "Usage: python youtube_analyzer.py <metadata|transcript|stream> <video_id>"],
                   indent |-> 0]>>
    /\ (Len(argv) >= 3 /\ pc = "exited") => exit_status = 0
    /\ pc # "exited" => exit_status = -1

\* C6 witness: a valid command alone ends with status 1 and no call.
C6_Witness ==
    /\ argv = <<"youtube_analyzer.py", "metadata">>
    /\ pc = "exited"
    /\ exit_status = 1
    /\ calls = <<>>
    /\ Len(stdout) = 1

\* C7: for a command outside metadata, transcript, stream given with a
\* video id, no collaborator is called, and the process ends with status 0
\* after printing exactly the unknown-command envelope naming the command.
C7_UnknownCommand ==
    (Len(argv) >= 3 /\ argv[2] \notin {"metadata", "transcript", "stream"}) =>
        /\ calls = <<>>
        /\ raised = <<>>
        /\ session = 0
        /\ pc \in {"main", "print", "exited"}
        /\ pc = "exited" =>
            /\ exit_status = 0
            /\ stdout =
                <<[envelope |->
                    [success |-> FALSE,
                     error |-> "Unknown command: " \o argv[2]
                        \o ". Use \"metadata\", \"transcript\", or \"stream\""],
                   indent |-> 2]>>

\* C7 witness: the command Metadata (wrong case) is answered as unknown.
C7_Witness ==
    /\ Len(argv) >= 3
    /\ argv[2] = "Metadata"
    /\ pc = "exited"
    /\ exit_status = 0
    /\ stdout[1].envelope.error =
        "Unknown command: Metadata. Use \"metadata\", \"transcript\", or \"stream\""

\* C8: the success envelope of get_transcript has one segment per fetched
\* item, in the order fetched, each with the item's start, duration and
\* text and with end = start + duration, and full_text is the segments'
\* texts joined by single spaces in that order.
C8_SegmentsAndFullText ==
    pc = "transcript_return" =>
        LET items == transcript_data[1]
            data == ret[1].value.data
            segs == data.segments
        IN  /\ ret[1].value.success
            /\ Len(segs) = Len(items)
            /\ \A i \in 1..Len(items) :
                /\ segs[i].start = items[i].start
                /\ segs[i].duration = items[i].duration
                /\ segs[i].text = items[i].text
                /\ segs[i].end = segs[i].start + segs[i].duration
            /\ data.full_text =
                SpaceJoined([i \in 1..Len(segs) |-> segs[i].text], Len(segs))
            /\ items = <<>> => data.full_text = ""

\* C8 witness: two items, the later one first, the second with an empty
\* text: full_text ends with the joining space.
C8_Witness ==
    /\ pc = "transcript_return"
    /\ Len(transcript_data[1]) = 2
    /\ transcript_data[1][1] = [start |-> 5, duration |-> 3, text |-> "b c"]
    /\ transcript_data[1][2] = [start |-> 0, duration |-> 3, text |-> ""]
    /\ ret[1].value.data.full_text = "b c "
    /\ ret[1].value.data.segments[1].end = 8

\* C9: at most one extractor session is open, it is open exactly inside the
\* with block of the metadata or stream operation, and none is open once
\* the operation has returned or anything was printed.
C9_SessionReleased ==
    /\ session \in {0, 1}
    /\ (session = 1) <=> pc \in {"metadata_extract", "metadata_exit",
                                 "stream_extract", "stream_exit"}
    /\ pc \in {"print", "exited"} => session = 0
    /\ stdout # <<>> => session = 0

\* C9 witness: the stream operation returned early with the fixed failure
\* from inside the with block and the session is released.
C9_Witness ==
    /\ RunsCommand("stream")
    /\ pc = "print"
    /\ Len(calls) = 2
    /\ raised = <<>>
    /\ result = <<[success |-> FALSE,
                   error |-> "Could not extract stream URL from video"]>>
    /\ session = 0

\* C10: the process prints exactly one envelope, and has printed it when it
\* ends; it can always take a step until it has ended; every envelope
\* returned or printed is well formed.
C10_OneEnvelope ==
    /\ Len(stdout) <= 1
    /\ (pc = "exited") <=> (Len(stdout) = 1)
    /\ pc # "exited" => ENABLED Next
    /\ \A i \in 1..Len(stdout) : WellFormed(stdout[i].envelope)
    /\ \A i \in 1..Len(result) : WellFormed(result[i])

\* C10 witness: a transcript run ended after printing a success envelope.
C10_Witness ==
    /\ RunsCommand("transcript")
    /\ pc = "exited"
    /\ Len(stdout) = 1
    /\ stdout[1].envelope.success
    /\ stdout[1].envelope.data.language = "fr"

====
